---- MODULE Spec2Model ----
(***************************************************************************)
(* A model of the Gemini Live conversational demo.                         *)
(*                                                                         *)
(* Part I  : the relay (server.js, reproduced in src/DEPLOYMENT.md lines   *)
(*           424-1153): one 'connection' handler per browser socket, the   *)
(*           sessions map, the four mode branches and their handlers.      *)
(* Part II : the browser component GdmLiveAudio (src/index.tsx).           *)
(*                                                                         *)
(* The vendor SDK (live.connect, chats.create, the streams) and the two    *)
(* WebSocket endpoints are the environment: their events are the inputs.   *)
(***************************************************************************)
EXTENDS Integers, Sequences, FiniteSets, TLC

(***************************************************************************)
(* Bounds of the relay model.                                              *)
(***************************************************************************)
\* number of browser connections the relay accepts
MaxConns == 2
\* Date.now() takes the values 0..MaxTime
MaxTime == 1
\* client frames put on the sockets, over all connections
MaxFrames == 2
\* upstream callbacks onmessage / onerror delivered, over all connections
MaxUpEvents == 2
\* chunks of one streamed response
MaxChunks == 1

Conns == 1..MaxConns

(***************************************************************************)
(* Bounds of the browser model.                                            *)
(***************************************************************************)
\* events the component handles that may recur without limit: frames
\* received, texts sent, audio buffers processed, microphone requests and
\* connectToProxy calls
MaxEvents == 3

\* the largest outputAudioContext.currentTime
MaxClock == 1

\* the values of the 'mode' query parameter a client may connect with
ModeParams == {"absent", "playground", "text", "stt", "voice", "other"}

\* the kinds of frame a client may put on its socket
FrameKinds == {"audio", "text", "playground_request", "malformed"}

VARIABLES
  \* ---- relay ----
  now,            \* Date.now()
  accepted,       \* number of connections accepted so far (they are 1..accepted)
  sessionId,      \* sessionId of each connection handler (-1 before accept)
  connMode,       \* the mode branch each connection takes ("none" before accept)
  pc,             \* position of each connection handler
  clientWs,       \* state of each client socket as the relay sees it
  sessions,       \* the sessions Map: key -> record
  upstream,       \* state of the vendor session created for each connection
  connectCalls,   \* calls of live.connect / chats.create made for each connection
  closeCalls,     \* calls of session.close() made on each connection's session
  sent,           \* frames passed to clientWs.send, per connection, in order
  upDelivered,    \* messages the vendor delivered to onmessage, per connection
  clientFrames,   \* frames the client put on its socket, per connection
  upstreamInput,  \* sendRealtimeInput / sendClientContent calls, per session
  requests,       \* streaming requests (text / playground) of each connection
  errs,           \* errors raised while serving each connection, by origin
  \* ---- browser component (GdmLiveAudio) ----
  mode,                 \* @state() mode
  pendingMode,          \* @state() pendingMode ("null" or a mode)
  showModeWarning,      \* @state() showModeWarning
  textInput,            \* @state() textInput
  status,               \* @state() status
  error,                \* @state() error
  renderedConnected,    \* isSessionConnected as the last render() read it
  conversationHistory,  \* @state() conversationHistory
  currentUserInput,     \* @state() currentUserInput
  currentAiOutput,      \* @state() currentAiOutput
  ws,                   \* this.ws: the socket held (0 is null), an index of sockets
  sockets,              \* every WebSocket created so far: readyState and url mode
  isSessionConnected,   \* this.isSessionConnected
  timers,               \* pending setTimeout(() => this.connectToProxy(), ...)
  outFrames,            \* frames handed to send() of each socket and queued
  handlers,             \* handleGeminiMessage invocations suspended at an await
  outputCtx,            \* outputAudioContext.state
  resumeRequested,      \* outputAudioContext.resume() was called and is pending
  currentTime,          \* outputAudioContext.currentTime
  sources,              \* this.sources: the scheduled AudioBufferSourceNodes
  nextStartTime,        \* this.nextStartTime
  isRecording,          \* @state() isRecording
  microphoneStream,     \* this.microphoneStream (0 is null)
  nodes,                \* this.sourceNode / this.scriptProcessorNode (0 is null)
  micPending,           \* startRecording invocations awaiting getUserMedia
  micCount,             \* microphone streams acquired so far (stream ids)
  activeStreams,        \* microphone streams acquired and not stopped
  connected,            \* script processors connected to the audio graph
  events,               \* events so far; the arrival stamp of each
  historyArrival,       \* arrival stamp of the event that committed each entry
  chunksSinceCommit,    \* texts of the text_chunk frames since the last 'ai' entry
  lastOp                \* the operation that ran last, and what it started from

relayVars == <<now, accepted, sessionId, connMode, pc, clientWs, sessions,
               upstream, connectCalls, closeCalls, sent, upDelivered,
               clientFrames, upstreamInput, requests, errs>>

uiVars == <<mode, pendingMode, showModeWarning, textInput>>
statusVars == <<status, error>>
transcriptVars == <<conversationHistory, currentUserInput, currentAiOutput,
                    historyArrival>>
socketVars == <<ws, sockets, isSessionConnected, timers, outFrames>>
clockVars == <<resumeRequested, currentTime>>
audioVars == <<handlers, outputCtx, sources, nextStartTime, clockVars>>
recVars == <<isRecording, microphoneStream, nodes, activeStreams, connected>>
micVars == <<recVars, micPending, micCount>>

clientVars == <<uiVars, statusVars, renderedConnected, transcriptVars, socketVars,
               audioVars, micVars, events, chunksSinceCommit, lastOp>>

vars == <<relayVars, clientVars>>

(***************************************************************************)
(* Helpers                                                                 *)
(***************************************************************************)
RECURSIVE SumTo(_, _)
SumTo(f, n) == IF n = 0 THEN 0 ELSE f[n] + SumTo(f, n - 1)

RECURSIVE Count(_, _)
\* the number of elements of sequence s whose type is in T
Count(s, T) ==
  IF s = <<>> THEN 0
  ELSE (IF Head(s).type \in T THEN 1 ELSE 0) + Count(Tail(s), T)

RECURSIVE Select(_, _)
\* the subsequence of s of the elements whose type is in T
Select(s, T) ==
  IF s = <<>> THEN <<>>
  ELSE (IF Head(s).type \in T THEN <<Head(s)>> ELSE <<>>) \o Select(Tail(s), T)

RECURSIVE Ids(_)
Ids(s) == IF s = <<>> THEN <<>> ELSE <<Head(s).id>> \o Ids(Tail(s))

Frame(t, i, x) == [type |-> t, id |-> i, text |-> x]

\* const mode = url.searchParams.get('mode') || 'voice'
ModeOf(param) == IF param = "absent" THEN "voice" ELSE param

\* a dispatch whose last branch is the text branch: any mode that is not
\* playground, stt or voice is served as text
BranchElseText(m) ==
  IF m = "playground" THEN "playground"
  ELSE IF m = "stt" THEN "stt"
  ELSE IF m = "voice" THEN "voice"
  ELSE "text"

\* the branch of the connection handler that `mode` selects
Branch(m) ==
  IF m = "playground" THEN "playground"
  ELSE IF m = "text" THEN "text"
  ELSE IF m = "stt" THEN "stt"
  ELSE "voice"

\* the type stored in the session record of each branch
RecordType(branch) == IF branch = "stt" THEN "stt-gemini" ELSE branch

\* a session record; session / chatSession 0 stand for an absent field, a
\* handle h > 0 is the vendor session created by connection h's handler.
\* conn is a history field: the connection whose handler stored the record.
Record(t, s, cs, c) == [type |-> t, session |-> s, chatSession |-> cs, conn |-> c]

\* sessions.set(key, rec)
MapSet(m, key, rec) ==
  [k \in DOMAIN m \cup {key} |-> IF k = key THEN rec ELSE m[k]]

\* sessions.delete(key)
MapDelete(m, key) == [k \in DOMAIN m \ {key} |-> m[k]]

\* clientWs.send(frame) on connection c, applied to a sent-log
Send(log, c, frame) == [log EXCEPT ![c] = Append(@, frame)]

FramesUsed == SumTo([c \in Conns |-> Len(clientFrames[c])], MaxConns)

UpEventsUsed ==
  SumTo([c \in Conns |-> Len(upDelivered[c]) + errs[c].upstream], MaxConns)

NoErrs == [upstream |-> 0, stream |-> 0, frame |-> 0, setup |-> 0]

(***************************************************************************)
(* Relay: initial state (server.js after `const sessions = new Map()`)     *)
(***************************************************************************)
RelayInit ==
  /\ now = 0
  /\ accepted = 0
  /\ sessionId = [c \in Conns |-> -1]
  /\ connMode = [c \in Conns |-> "none"]
  /\ pc = [c \in Conns |-> "none"]
  /\ clientWs = [c \in Conns |-> "none"]
  /\ sessions = [k \in {} |-> Record("none", 0, 0, 0)]
  /\ upstream = [c \in Conns |-> "none"]
  /\ connectCalls = [c \in Conns |-> 0]
  /\ closeCalls = [c \in Conns |-> 0]
  /\ sent = [c \in Conns |-> <<>>]
  /\ upDelivered = [c \in Conns |-> <<>>]
  /\ clientFrames = [c \in Conns |-> <<>>]
  /\ upstreamInput = [c \in Conns |-> <<>>]
  /\ requests = [c \in Conns |-> <<>>]
  /\ errs = [c \in Conns |-> NoErrs]

(***************************************************************************)
(* Relay: the 'connection' handler                                         *)
(***************************************************************************)
\* a SetupCatch whose catch block forgets clientWs.close()
SetupCatchNoClose(c) ==
  /\ sent' = Send(sent, c, Frame("error", 0, "setup"))
  /\ clientWs' = [clientWs EXCEPT ![c] = "open"]
  /\ pc' = [pc EXCEPT ![c] = "failed"]
  /\ errs' = [errs EXCEPT ![c].setup = @ + 1]

\* the catch block of the connection handler: one error frame, then
\* clientWs.close(); no close handler is registered on this path and
\* live.connect / chats.create is not called again
SetupCatch(c) ==
  /\ sent' = Send(sent, c, Frame("error", 0, "setup"))
  /\ clientWs' = [clientWs EXCEPT ![c] = "closed"]
  /\ pc' = [pc EXCEPT ![c] = "failed"]
  /\ errs' = [errs EXCEPT ![c].setup = @ + 1]

\* wss.on('connection'): the synchronous part of the handler, up to the first
\* await (stt, voice) or to the early return (playground, text).
\* t is the value Date.now() returns, never less than the last one read.
\* fail = "ctor": new GoogleGenAI throws; fail = "create": chats.create throws.
Accept(p, fail, t) ==
  LET c == accepted + 1
      b == Branch(ModeOf(p))
  IN
  /\ accepted < MaxConns
  /\ fail = "create" => b = "text"
  /\ accepted' = c
  /\ t >= now
  /\ now' = t
  /\ sessionId' = [sessionId EXCEPT ![c] = t]
  /\ connMode' = [connMode EXCEPT ![c] = b]
  /\ UNCHANGED <<closeCalls, upDelivered, clientFrames, upstreamInput,
                 requests>>
  /\ UNCHANGED clientVars
  /\ IF fail = "ctor"
       THEN /\ SetupCatch(c)
            /\ UNCHANGED <<sessions, upstream, connectCalls>>
     ELSE IF fail = "create"
       THEN /\ SetupCatch(c)
            /\ connectCalls' = [connectCalls EXCEPT ![c] = @ + 1]
            /\ UNCHANGED <<sessions, upstream>>
     ELSE IF b = "playground"
       THEN /\ sessions' = MapSet(sessions, t, Record("playground", 0, 0, c))
            /\ sent' = Send(sent, c, Frame("session_open", 0, "playground"))
            /\ pc' = [pc EXCEPT ![c] = "serving"]
            /\ clientWs' = [clientWs EXCEPT ![c] = "open"]
            /\ UNCHANGED <<upstream, connectCalls, errs>>
     ELSE IF b = "text"
       THEN /\ connectCalls' = [connectCalls EXCEPT ![c] = @ + 1]
            /\ upstream' = [upstream EXCEPT ![c] = "chat"]
            /\ sessions' = MapSet(sessions, t, Record("text", 0, c, c))
            /\ sent' = Send(sent, c, Frame("session_open", 0, "text"))
            /\ pc' = [pc EXCEPT ![c] = "serving"]
            /\ clientWs' = [clientWs EXCEPT ![c] = "open"]
            /\ UNCHANGED errs
     ELSE \* stt and voice: await client.live.connect(...)
            /\ connectCalls' = [connectCalls EXCEPT ![c] = @ + 1]
            /\ upstream' = [upstream EXCEPT ![c] = "connecting"]
            /\ pc' = [pc EXCEPT ![c] = "connecting"]
            /\ clientWs' = [clientWs EXCEPT ![c] = "open"]
            /\ UNCHANGED <<sessions, sent, errs>>

\* the vendor opens the live session: callbacks.onopen
UpOpen(c) ==
  /\ upstream[c] = "connecting"
  /\ upstream' = [upstream EXCEPT ![c] = "open"]
  /\ sent' = Send(sent, c, Frame("session_open", 0, connMode[c]))
  /\ UNCHANGED <<now, accepted, sessionId, connMode, pc, clientWs, sessions,
                 connectCalls, closeCalls, upDelivered, clientFrames,
                 upstreamInput, requests, errs>>
  /\ UNCHANGED clientVars

\* live.connect resolves (after onopen): the handler stores the record and
\* registers the 'message' and 'close' handlers, whatever the socket's state
ConnectResolve(c) ==
  /\ pc[c] = "connecting"
  /\ upstream[c] \in {"open", "closed"}
  /\ sessions' = MapSet(sessions, sessionId[c],
                        Record(RecordType(connMode[c]), c, 0, c))
  /\ pc' = [pc EXCEPT ![c] = "serving"]
  /\ UNCHANGED <<now, accepted, sessionId, connMode, clientWs, upstream,
                 connectCalls, closeCalls, sent, upDelivered, clientFrames,
                 upstreamInput, requests, errs>>
  /\ UNCHANGED clientVars

\* a ConnectReject in which the handler answers a rejected live.connect by
\* calling live.connect again
ConnectRejectRetry(c) ==
  /\ pc[c] = "connecting"
  /\ upstream[c] = "connecting"
  /\ connectCalls[c] < 3
  /\ connectCalls' = [connectCalls EXCEPT ![c] = @ + 1]
  /\ sent' = Send(sent, c, Frame("error", 0, "setup"))
  /\ errs' = [errs EXCEPT ![c].setup = @ + 1]
  /\ UNCHANGED <<now, accepted, sessionId, connMode, pc, clientWs, sessions,
                 upstream, closeCalls, upDelivered, clientFrames,
                 upstreamInput, requests>>
  /\ UNCHANGED clientVars

\* live.connect rejects (or throws): the catch block runs
ConnectReject(c) ==
  /\ pc[c] = "connecting"
  /\ upstream[c] = "connecting"
  /\ upstream' = [upstream EXCEPT ![c] = "failed"]
  /\ SetupCatch(c)
  /\ UNCHANGED <<now, accepted, sessionId, connMode, sessions, connectCalls,
                 closeCalls, upDelivered, clientFrames, upstreamInput,
                 requests>>
  /\ UNCHANGED clientVars

(***************************************************************************)
(* Relay: the callbacks given to live.connect (stt and voice)              *)
(***************************************************************************)
\* callbacks.onmessage. voice: every message is forwarded; stt: a message is
\* forwarded as 'transcription' when it holds serverContent.inputTranscription
OnUpstreamMessage(c, m) ==
  IF connMode[c] = "voice"
    THEN sent' = Send(sent, c, Frame("message", m.id, ""))
  ELSE IF m.text = "inputTranscription"
    THEN sent' = Send(sent, c, Frame("transcription", m.id, ""))
  ELSE UNCHANGED sent

\* the vendor delivers a message on c's live session
UpMessage(c, kind) ==
  LET m == Frame("upstream", Len(upDelivered[c]) + 1, kind) IN
  /\ upstream[c] = "open"
  /\ UpEventsUsed < MaxUpEvents
  /\ upDelivered' = [upDelivered EXCEPT ![c] = Append(@, m)]
  /\ OnUpstreamMessage(c, m)
  /\ UNCHANGED <<now, accepted, sessionId, connMode, pc, clientWs, sessions,
                 upstream, connectCalls, closeCalls, clientFrames,
                 upstreamInput, requests, errs>>
  /\ UNCHANGED clientVars

\* an OnUpstreamError in which onerror only logs the error
OnUpstreamErrorLogOnly(c) == UNCHANGED sent

\* callbacks.onerror: the error is forwarded as {type:'error'}
OnUpstreamError(c) == sent' = Send(sent, c, Frame("error", 0, "upstream"))

\* the vendor reports an error on c's live session
UpError(c) ==
  /\ upstream[c] \in {"connecting", "open"}
  /\ UpEventsUsed < MaxUpEvents
  /\ errs' = [errs EXCEPT ![c].upstream = @ + 1]
  /\ OnUpstreamError(c)
  /\ UNCHANGED <<now, accepted, sessionId, connMode, pc, clientWs, sessions,
                 upstream, connectCalls, closeCalls, upDelivered, clientFrames,
                 upstreamInput, requests>>
  /\ UNCHANGED clientVars

\* c's live session closes (by the vendor, or after session.close()):
\* callbacks.onclose sends {type:'session_close'}
UpClose(c) ==
  /\ upstream[c] \in {"open", "closing"}
  /\ upstream' = [upstream EXCEPT ![c] = "closed"]
  /\ sent' = Send(sent, c, Frame("session_close", 0, ""))
  /\ UNCHANGED <<now, accepted, sessionId, connMode, pc, clientWs, sessions,
                 connectCalls, closeCalls, upDelivered, clientFrames,
                 upstreamInput, requests, errs>>
  /\ UNCHANGED clientVars

(***************************************************************************)
(* Relay: the 'message' handlers                                           *)
(***************************************************************************)
\* clientWs.on('message') of connection c on frame f; throws: the SDK call
\* the handler makes (sendRealtimeInput / sendClientContent) throws.
\* Every exception is caught and logged, nothing is sent to the client.
OnClientMessage(c, f, throws) ==
  LET m == connMode[c]
      parseFails == f.type = "malformed"
      realtime == m \in {"voice", "stt"} /\ f.type = "audio"
      content == m = "voice" /\ f.type = "text"
      request == \/ m = "text" /\ f.type = "text" /\ f.text # ""
                 \/ m = "playground" /\ f.type = "playground_request"
  IN
  /\ throws => (realtime \/ content)
  /\ upstreamInput' =
       IF realtime
         THEN [upstreamInput EXCEPT ![c] = Append(@, Frame("realtimeInput", f.id, ""))]
       ELSE IF content
         THEN [upstreamInput EXCEPT ![c] = Append(@, Frame("clientContent", f.id, f.text))]
       ELSE upstreamInput
  /\ requests' =
       IF request
         THEN [requests EXCEPT ![c] = Append(@, [st |-> "await", left |-> 0])]
       ELSE requests
  /\ errs' = IF parseFails \/ throws
               THEN [errs EXCEPT ![c].frame = @ + 1]
             ELSE errs
  /\ UNCHANGED sent

\* the client puts a frame on its socket; the relay's 'message' handler runs
\* when one is registered, otherwise the event has no listener
ClientFrame(c, kind, text, throws) ==
  LET f == Frame(kind, Len(clientFrames[c]) + 1, text) IN
  /\ clientWs[c] = "open"
  /\ FramesUsed < MaxFrames
  /\ text # "" => kind = "text"
  /\ clientFrames' = [clientFrames EXCEPT ![c] = Append(@, f)]
  /\ IF pc[c] = "serving"
       THEN OnClientMessage(c, f, throws)
     ELSE /\ ~throws
          /\ UNCHANGED <<upstreamInput, requests, errs, sent>>
  /\ UNCHANGED <<now, accepted, sessionId, connMode, pc, clientWs, sessions,
                 upstream, connectCalls, closeCalls, upDelivered>>
  /\ UNCHANGED clientVars

(***************************************************************************)
(* Relay: the streamed responses of text and playground mode               *)
(***************************************************************************)
ChunkType(c) == IF connMode[c] = "playground" THEN "playground_chunk" ELSE "text_chunk"
CompleteType(c) ==
  IF connMode[c] = "playground" THEN "playground_complete" ELSE "text_complete"
StreamErrorType(c) == IF connMode[c] = "playground" THEN "playground_error" ELSE "error"

\* await sendMessageStream / generateContentStream resolves with n chunks
StreamStart(c, r, n) ==
  /\ r \in DOMAIN requests[c]
  /\ requests[c][r].st = "await"
  /\ requests' = [requests EXCEPT ![c][r] = [st |-> "streaming", left |-> n]]
  /\ UNCHANGED <<now, accepted, sessionId, connMode, pc, clientWs, sessions,
                 upstream, connectCalls, closeCalls, sent, upDelivered,
                 clientFrames, upstreamInput, errs>>
  /\ UNCHANGED clientVars

\* one iteration of `for await (const chunk of stream)`
StreamChunk(c, r, hasText) ==
  /\ r \in DOMAIN requests[c]
  /\ requests[c][r].st = "streaming"
  /\ requests[c][r].left > 0
  /\ requests' = [requests EXCEPT ![c][r].left = @ - 1]
  /\ sent' = IF hasText THEN Send(sent, c, Frame(ChunkType(c), r, "chunk"))
             ELSE sent
  /\ UNCHANGED <<now, accepted, sessionId, connMode, pc, clientWs, sessions,
                 upstream, connectCalls, closeCalls, upDelivered, clientFrames,
                 upstreamInput, errs>>
  /\ UNCHANGED clientVars

\* the stream is exhausted: text_complete / playground_complete
StreamEnd(c, r) ==
  /\ r \in DOMAIN requests[c]
  /\ requests[c][r].st = "streaming"
  /\ requests[c][r].left = 0
  /\ requests' = [requests EXCEPT ![c][r].st = "done"]
  /\ sent' = Send(sent, c, Frame(CompleteType(c), r, ""))
  /\ UNCHANGED <<now, accepted, sessionId, connMode, pc, clientWs, sessions,
                 upstream, connectCalls, closeCalls, upDelivered, clientFrames,
                 upstreamInput, errs>>
  /\ UNCHANGED clientVars

\* catch (streamError): the request or the iteration throws
OnStreamError(c) == sent' = Send(sent, c, Frame(StreamErrorType(c), 0, "stream"))

StreamFail(c, r) ==
  /\ r \in DOMAIN requests[c]
  /\ requests[c][r].st \in {"await", "streaming"}
  /\ requests' = [requests EXCEPT ![c][r].st = "failed"]
  /\ errs' = [errs EXCEPT ![c].stream = @ + 1]
  /\ OnStreamError(c)
  /\ UNCHANGED <<now, accepted, sessionId, connMode, pc, clientWs, sessions,
                 upstream, connectCalls, closeCalls, upDelivered, clientFrames,
                 upstreamInput>>
  /\ UNCHANGED clientVars

(***************************************************************************)
(* Relay: the 'close' handlers                                             *)
(***************************************************************************)
\* session.close() on the live session with handle h
SessionClose(h) ==
  /\ closeCalls' = [closeCalls EXCEPT ![h] = @ + 1]
  /\ upstream' = [upstream EXCEPT ![h] = IF @ = "open" THEN "closing" ELSE @]

\* clientWs.on('close') as registered by c's branch
OnClientClose(c) ==
  LET id == sessionId[c]
      has == id \in DOMAIN sessions
      h == IF has THEN sessions[id].session ELSE 0
  IN
  IF connMode[c] \in {"playground", "text"}
    THEN /\ sessions' = MapDelete(sessions, id)
         /\ UNCHANGED <<closeCalls, upstream>>
  ELSE IF connMode[c] = "stt"
    THEN /\ IF has /\ h # 0 THEN SessionClose(h)
            ELSE UNCHANGED <<closeCalls, upstream>>
         /\ sessions' = MapDelete(sessions, id)
  ELSE \* voice: the delete is inside the if
         IF has /\ h # 0
           THEN SessionClose(h) /\ sessions' = MapDelete(sessions, id)
         ELSE UNCHANGED <<closeCalls, upstream, sessions>>

\* the client socket closes (the browser closes it, or the network does); the
\* 'close' event reaches the handler only when one is registered
ClientClose(c) ==
  /\ clientWs[c] = "open"
  /\ clientWs' = [clientWs EXCEPT ![c] = "closed"]
  /\ IF pc[c] = "serving" THEN OnClientClose(c)
     ELSE UNCHANGED <<closeCalls, upstream, sessions>>
  /\ UNCHANGED <<now, accepted, sessionId, connMode, pc, connectCalls, sent,
                 upDelivered, clientFrames, upstreamInput, requests, errs>>
  /\ UNCHANGED clientVars

(***************************************************************************)
(* Browser component: strings and messages                                 *)
(***************************************************************************)
\* strings are sequences of characters; " " is the only whitespace used
RECURSIVE TrimStart(_)
TrimStart(s) ==
  IF s # <<>> /\ Head(s) = " " THEN TrimStart(Tail(s)) ELSE s

RECURSIVE TrimEnd(_)
TrimEnd(s) ==
  IF s # <<>> /\ s[Len(s)] = " " THEN TrimEnd(SubSeq(s, 1, Len(s) - 1)) ELSE s

\* String.prototype.trim
Trim(s) == TrimEnd(TrimStart(s))

Modes == {"voice", "text", "playground"}

\* the texts a message or the input field may carry
Texts == {<<>>, <<" ">>, <<"a">>}

\* the values the user may type into the text field
TextInputs == {<<>>, <<" ">>, <<" ", "a">>}

Entry(r, t) == [role |-> r, text |-> t]

\* the content of a LiveServerMessage the handler looks at:
\* audio: serverContent.modelTurn.parts[0].inlineData.data is present
\* text: modelTurn.parts[0].text; itText / itFinished: inputTranscription;
\* otText: outputTranscription.text
Gemini(audio, text, itText, itFinished, otText, turnComplete, interrupted) ==
  [audio |-> audio, text |-> text, itText |-> itText, itFinished |-> itFinished,
   otText |-> otText, turnComplete |-> turnComplete, interrupted |-> interrupted]

NoData == Gemini(FALSE, <<>>, <<>>, FALSE, <<>>, FALSE, FALSE)

\* the LiveServerMessages the relay may forward
GeminiMessages ==
  { Gemini(TRUE, <<>>, <<>>, FALSE, <<>>, FALSE, FALSE),
    Gemini(TRUE, <<>>, <<>>, FALSE, <<"a">>, TRUE, FALSE),
    Gemini(FALSE, <<"a">>, <<>>, FALSE, <<>>, FALSE, FALSE),
    Gemini(FALSE, <<>>, <<"a">>, TRUE, <<>>, FALSE, FALSE),
    Gemini(FALSE, <<>>, <<" ">>, TRUE, <<>>, FALSE, FALSE),
    Gemini(FALSE, <<>>, <<>>, FALSE, <<"a">>, FALSE, FALSE),
    Gemini(FALSE, <<>>, <<>>, FALSE, <<>>, TRUE, FALSE),
    Gemini(FALSE, <<>>, <<>>, FALSE, <<>>, FALSE, TRUE) }

\* a frame of the relay: text is message.text, or message.message of an
\* error frame; mode is message.mode of a session_open frame
ProxyMessage(t, x, d) == [type |-> t, text |-> x, data |-> d, mode |-> "voice"]

\* {type: 'session_open', mode: md}
SessionOpen(md) == [ProxyMessage("session_open", <<>>, NoData) EXCEPT !.mode = md]

\* the messages an error frame may carry
ErrorTexts == {<<>>, <<"e">>}

\* the message ws.onerror shows
ConnectionError == <<"c">>

\* the status line after session_open: modeLabel is 'text' or 'voice'
ConnectedStatus(md) ==
  IF md = "text" THEN "Connected in text mode! Type a message to start."
  ELSE "Connected in voice mode! Click Start to begin."

\* the status line after confirmModeSwitch() to mode md
SwitchedStatus(md) ==
  CASE md = "voice" -> "Switched to voice mode. Reconnecting..."
    [] md = "text" -> "Switched to text mode. Reconnecting..."
    [] OTHER -> "Switched to playground mode. Reconnecting..."

\* the frames the relay may send to the browser ("garbage" does not parse)
ProxyMessages ==
  {ProxyMessage(t, <<>>, NoData) : t \in {"session_close", "text_complete", "garbage"}}
  \cup {SessionOpen(md) : md \in {"voice", "text"}}
  \cup {ProxyMessage("error", x, NoData) : x \in ErrorTexts}
  \cup {ProxyMessage("text_chunk", x, NoData) : x \in Texts}
  \cup {ProxyMessage("message", <<>>, d) : d \in GeminiMessages}

(***************************************************************************)
(* Browser component: construction                                         *)
(***************************************************************************)
\* new WebSocket(`${PROXY_WS_URL}?mode=${m}`) appended to the sockets
NewSocket(socks, m) == Append(socks, [state |-> "connecting", url |-> m])

\* WebSocket.close(): CONNECTING or OPEN becomes CLOSING
CloseSocket(socks, i) ==
  IF i # 0 /\ socks[i].state \in {"connecting", "open"}
    THEN [socks EXCEPT ![i].state = "closing"]
  ELSE socks

\* the state after `new GdmLiveAudio()`: initAudio() and connectToProxy()
ClientInit ==
  /\ mode = "voice"
  /\ pendingMode = "null"
  /\ showModeWarning = FALSE
  /\ textInput = <<>>
  /\ status = "Connecting to Vertex AI via proxy..."
  /\ error = <<>>
  /\ renderedConnected = FALSE
  /\ conversationHistory = <<>>
  /\ currentUserInput = <<>>
  /\ currentAiOutput = <<>>
  /\ sockets = NewSocket(<<>>, "voice")
  /\ ws = 1
  /\ isSessionConnected = FALSE
  /\ timers = 0
  /\ outFrames = <<<<>>>>
  /\ handlers = {}
  /\ outputCtx = "suspended"
  /\ resumeRequested = FALSE
  /\ currentTime = 0
  /\ sources = {}
  /\ nextStartTime = 0
  /\ isRecording = FALSE
  /\ microphoneStream = 0
  /\ nodes = 0
  /\ micPending = 0
  /\ micCount = 0
  /\ activeStreams = {}
  /\ connected = {}
  /\ events = 0
  /\ historyArrival = <<>>
  /\ chunksSinceCommit = <<>>
  /\ lastOp = [name |-> "constructor", recording |-> FALSE, entries |-> 0]

\* connectToProxy(): a new socket with ?mode=<this.mode> replaces this.ws;
\* socks and m are the sockets and the mode at the time of the call. The
\* status line it sets is set by its callers, two of which overwrite it.
ConnectToProxy(socks, m) ==
  /\ events < MaxEvents
  /\ events' = events + 1
  /\ sockets' = NewSocket(socks, m)
  /\ outFrames' = Append(outFrames, <<>>)
  /\ ws' = Len(socks) + 1

(***************************************************************************)
(* Browser component: socket events                                        *)
(***************************************************************************)
\* ws.onopen: only the status line changes
SockOpen(i) ==
  /\ i \in DOMAIN sockets
  /\ sockets[i].state = "connecting"
  /\ sockets' = [sockets EXCEPT ![i].state = "open"]
  /\ UNCHANGED <<uiVars, transcriptVars, ws, isSessionConnected, timers,
                 outFrames, audioVars, micVars, events>>
  /\ status' = "Connected to proxy. Waiting for Vertex AI session..."
  /\ UNCHANGED error
  /\ UNCHANGED relayVars

\* ws.onerror: the browser has failed the connection, delivers nothing more
\* on it and fires its close event next
SockError(i) ==
  /\ i \in DOMAIN sockets
  /\ sockets[i].state \in {"connecting", "open"}
  /\ sockets' = [sockets EXCEPT ![i].state = "closing"]
  /\ isSessionConnected' = FALSE
  /\ UNCHANGED <<uiVars, transcriptVars, ws, timers, outFrames,
                 audioVars, micVars, events>>
  /\ error' = ConnectionError
  /\ UNCHANGED status
  /\ UNCHANGED relayVars

\* ws.onclose: a reconnect is scheduled in 3 seconds
SockClose(i) ==
  /\ i \in DOMAIN sockets
  /\ sockets[i].state # "closed"
  /\ sockets' = [sockets EXCEPT ![i].state = "closed"]
  /\ isSessionConnected' = FALSE
  /\ timers' = timers + 1
  /\ UNCHANGED <<uiVars, transcriptVars, ws, outFrames, audioVars, micVars,
                 events>>
  /\ status' = "Disconnected. Reconnecting in 3 seconds..."
  /\ UNCHANGED error
  /\ UNCHANGED relayVars

\* a reconnect timer fires: () => this.connectToProxy()
TimerFire ==
  /\ timers > 0
  /\ timers' = timers - 1
  /\ ConnectToProxy(sockets, mode)
  /\ UNCHANGED <<uiVars, transcriptVars, isSessionConnected, audioVars,
                 micVars>>
  /\ status' = "Connecting to Vertex AI via proxy..."
  /\ UNCHANGED error
  /\ UNCHANGED relayVars

(***************************************************************************)
(* Browser component: handleGeminiMessage                                  *)
(***************************************************************************)
\* the duration of a decoded audio chunk
ChunkDuration == 1

\* the part of handleGeminiMessage after the audio block, for message d that
\* arrived with stamp n; srcs and nst are this.sources and this.nextStartTime
\* as the audio block left them
HandleTranscript(d, n, srcs, nst) ==
  LET ai1 == IF d.text # <<>> THEN currentAiOutput \o d.text ELSE currentAiOutput
      user1 == IF d.itText # <<>> THEN currentUserInput \o d.itText
               ELSE currentUserInput
      commitUser == d.itFinished /\ Trim(user1) # <<>>
      hist1 == IF commitUser
                 THEN Append(conversationHistory, Entry("user", Trim(user1)))
               ELSE conversationHistory
      arr1 == IF commitUser THEN Append(historyArrival, n) ELSE historyArrival
      user2 == IF commitUser THEN <<>> ELSE user1
      ai2 == IF d.otText # <<>> THEN ai1 \o d.otText ELSE ai1
      commitAi == d.turnComplete /\ Trim(ai2) # <<>>
      hist2 == IF commitAi THEN Append(hist1, Entry("ai", Trim(ai2))) ELSE hist1
      arr2 == IF commitAi THEN Append(arr1, n) ELSE arr1
      ai3 == IF commitAi THEN <<>> ELSE ai2
  IN
  /\ conversationHistory' = hist2
  /\ historyArrival' = arr2
  /\ currentUserInput' = user2
  /\ currentAiOutput' = IF d.interrupted THEN <<>> ELSE ai3
  /\ sources' = IF d.interrupted THEN {} ELSE srcs
  /\ nextStartTime' = IF d.interrupted THEN 0 ELSE nst

\* Math.max
Max(a, b) == IF a >= b THEN a ELSE b

\* handleGeminiMessage up to its first await, or to its end when the message
\* holds no audio
HandleGeminiMessage(d, n) ==
  IF d.audio
    THEN IF outputCtx = "suspended"
           THEN \* await this.outputAudioContext.resume()
                /\ handlers' = handlers \cup {[stamp |-> n, data |-> d, at |-> "resume"]}
                /\ resumeRequested' = TRUE
                /\ UNCHANGED <<transcriptVars, outputCtx, sources, nextStartTime,
                               currentTime>>
         ELSE \* nextStartTime = max(nextStartTime, currentTime); await decode
                /\ handlers' = handlers \cup {[stamp |-> n, data |-> d, at |-> "decode"]}
                /\ nextStartTime' = Max(nextStartTime, currentTime)
                /\ UNCHANGED <<transcriptVars, outputCtx, sources, clockVars>>
  ELSE /\ HandleTranscript(d, n, sources, nextStartTime)
       /\ UNCHANGED <<handlers, outputCtx, clockVars>>

\* the output context starts running: the task that sets its state resolves
\* every pending resume() promise, so each handler suspended there goes on
\* to `await decodeAudioData`
Resumed(hs) == {[h EXCEPT !.at = "decode"] : h \in hs}

\* the pending outputAudioContext.resume() resolves: the context has started
\* and has rendered up to time t by now; each handler suspended at
\* `await resume()` continues with nextStartTime = max(nextStartTime,
\* currentTime) up to `await decodeAudioData`
ResumeDone(t) ==
  /\ outputCtx = "suspended"
  /\ resumeRequested
  /\ t >= currentTime
  /\ resumeRequested' = FALSE
  /\ currentTime' = t
  /\ handlers' = Resumed(handlers)
  /\ outputCtx' = "running"
  /\ nextStartTime' = IF \E h \in handlers : h.at = "resume"
                        THEN Max(nextStartTime, t)
                      ELSE nextStartTime
  /\ UNCHANGED <<uiVars, transcriptVars, socketVars, sources, micVars, events>>
  /\ UNCHANGED statusVars
  /\ UNCHANGED relayVars

\* the running output context renders: its currentTime advances to t
Tick(t) ==
  /\ outputCtx = "running"
  /\ t > currentTime
  /\ currentTime' = t
  /\ UNCHANGED <<uiVars, transcriptVars, socketVars, handlers, outputCtx, sources,
                 nextStartTime, resumeRequested, micVars, events>>
  /\ UNCHANGED statusVars
  /\ UNCHANGED relayVars

\* decodeAudioData is imported from ./utils (index.tsx:9), which is not
\* among the sources. Its call (404-409) hands it the decoded bytes, the
\* output context, the sample rate 24000 and the channel count 1: it builds an
\* AudioBuffer from raw PCM and waits for nothing, so the promises of
\* successive calls resolve in the order of the calls.
NextDecoded(h) ==
  /\ h \in handlers
  /\ h.at = "decode"
  /\ \A g \in handlers : g.at = "decode" => h.stamp <= g.stamp

\* a handler that starts its chunk at nextStartTime and leaves nextStartTime
\* where it was
DecodeDoneKeepsStartTime(h) ==
  /\ NextDecoded(h)
  /\ handlers' = handlers \ {h}
  /\ HandleTranscript(h.data, h.stamp,
                      sources \cup {[id |-> h.stamp, start |-> nextStartTime]},
                      nextStartTime)
  /\ UNCHANGED <<uiVars, socketVars, outputCtx, clockVars, micVars, events>>
  /\ UNCHANGED statusVars
  /\ UNCHANGED relayVars

\* decodeAudioData resolves for the handler whose call is the oldest one
\* pending: the chunk is started at nextStartTime and the rest of
\* handleGeminiMessage runs
DecodeDone(h) ==
  /\ NextDecoded(h)
  /\ handlers' = handlers \ {h}
  /\ HandleTranscript(h.data, h.stamp,
                      sources \cup {[id |-> h.stamp, start |-> nextStartTime]},
                      nextStartTime + ChunkDuration)
  /\ UNCHANGED <<uiVars, socketVars, outputCtx, clockVars, micVars, events>>
  /\ UNCHANGED statusVars
  /\ UNCHANGED relayVars

\* the 'ended' event of a scheduled source
SourceEnded(src) ==
  /\ src \in sources
  /\ sources' = sources \ {src}
  /\ UNCHANGED <<uiVars, transcriptVars, socketVars, handlers, outputCtx,
                 nextStartTime, clockVars, micVars, events>>
  /\ UNCHANGED statusVars
  /\ UNCHANGED relayVars

(***************************************************************************)
(* Browser component: ws.onmessage                                         *)
(***************************************************************************)
\* a ws.onmessage whose text_complete commits currentAiOutput as it is,
\* whenever it is not the empty string
OnSockMessageCommitsUntrimmed(i, m, n) ==
  IF m.type = "session_open"
    THEN /\ isSessionConnected' = TRUE
         /\ status' = ConnectedStatus(m.mode)
         /\ UNCHANGED <<error, transcriptVars, timers, audioVars>>
  ELSE IF m.type = "error"
    THEN /\ error' = m.text
         /\ isSessionConnected' = FALSE
         /\ UNCHANGED <<status, transcriptVars, timers, audioVars>>
  ELSE IF m.type = "session_close"
    THEN /\ isSessionConnected' = FALSE
         /\ status' = "Session closed. Reconnecting..."
         /\ timers' = timers + 1
         /\ UNCHANGED <<error, transcriptVars, audioVars>>
  ELSE IF m.type = "text_chunk"
    THEN /\ currentAiOutput' = IF m.text # <<>> THEN currentAiOutput \o m.text
                               ELSE currentAiOutput
         /\ UNCHANGED <<conversationHistory, currentUserInput, historyArrival,
                        isSessionConnected, timers, audioVars, statusVars>>
  ELSE IF m.type = "text_complete"
    THEN /\ IF currentAiOutput # <<>>
              THEN /\ conversationHistory' =
                        Append(conversationHistory, Entry("ai", currentAiOutput))
                   /\ historyArrival' = Append(historyArrival, n)
                   /\ currentAiOutput' = <<>>
            ELSE UNCHANGED <<conversationHistory, historyArrival, currentAiOutput>>
         /\ UNCHANGED <<currentUserInput, isSessionConnected, timers, audioVars,
                        statusVars>>
  ELSE IF m.type = "message"
    THEN /\ HandleGeminiMessage(m.data, n)
         /\ UNCHANGED <<isSessionConnected, timers, statusVars>>
  ELSE \* JSON.parse throws, or an unknown type: nothing changes
         UNCHANGED <<transcriptVars, isSessionConnected, timers, audioVars,
                     statusVars>>

\* ws.onmessage of socket i on message m (the handlers of every socket the
\* component created stay attached and act on the one component)
OnSockMessage(i, m, n) ==
  IF m.type = "session_open"
    THEN /\ isSessionConnected' = TRUE
         /\ status' = ConnectedStatus(m.mode)
         /\ UNCHANGED <<error, transcriptVars, timers, audioVars>>
  ELSE IF m.type = "error"
    THEN /\ error' = m.text
         /\ isSessionConnected' = FALSE
         /\ UNCHANGED <<status, transcriptVars, timers, audioVars>>
  ELSE IF m.type = "session_close"
    THEN /\ isSessionConnected' = FALSE
         /\ status' = "Session closed. Reconnecting..."
         /\ timers' = timers + 1
         /\ UNCHANGED <<error, transcriptVars, audioVars>>
  ELSE IF m.type = "text_chunk"
    THEN /\ currentAiOutput' = IF m.text # <<>> THEN currentAiOutput \o m.text
                               ELSE currentAiOutput
         /\ UNCHANGED <<conversationHistory, currentUserInput, historyArrival,
                        isSessionConnected, timers, audioVars, statusVars>>
  ELSE IF m.type = "text_complete"
    THEN /\ IF Trim(currentAiOutput) # <<>>
              THEN /\ conversationHistory' =
                        Append(conversationHistory, Entry("ai", Trim(currentAiOutput)))
                   /\ historyArrival' = Append(historyArrival, n)
                   /\ currentAiOutput' = <<>>
            ELSE UNCHANGED <<conversationHistory, historyArrival, currentAiOutput>>
         /\ UNCHANGED <<currentUserInput, isSessionConnected, timers, audioVars,
                        statusVars>>
  ELSE IF m.type = "message"
    THEN /\ HandleGeminiMessage(m.data, n)
         /\ UNCHANGED <<isSessionConnected, timers, statusVars>>
  ELSE \* JSON.parse throws, or an unknown type: nothing changes
         UNCHANGED <<transcriptVars, isSessionConnected, timers, audioVars,
                     statusVars>>

\* a frame from the relay arrives on socket i (an OPEN socket only: nothing
\* is delivered once close() was called)
SockMessage(i, m) ==
  /\ i \in DOMAIN sockets
  /\ sockets[i].state = "open"
  /\ events < MaxEvents
  /\ events' = events + 1
  /\ OnSockMessage(i, m, events + 1)
  /\ UNCHANGED <<uiVars, ws, sockets, outFrames, micVars>>
  /\ UNCHANGED relayVars

(***************************************************************************)
(* Browser component: recording                                            *)
(***************************************************************************)
\* this.inputAudioContext is set in the field initialiser and never cleared
InputAudioContextSet == TRUE

\* stopRecording(), but for the status line
StopRecordingNodes ==
  IF ~isRecording /\ microphoneStream = 0 /\ ~InputAudioContextSet
    THEN UNCHANGED recVars
  ELSE /\ isRecording' = FALSE
       /\ connected' = connected \ {nodes}
       /\ nodes' = 0
       /\ activeStreams' = activeStreams \ {microphoneStream}
       /\ microphoneStream' = 0

\* stopRecording()
StopRecording ==
  /\ StopRecordingNodes
  /\ status' = IF ~isRecording /\ microphoneStream = 0 /\ ~InputAudioContextSet
                 THEN status
               ELSE "Recording stopped. Click Start to begin again."

\* the start button (voice mode, disabled while recording): startRecording()
\* up to `await navigator.mediaDevices.getUserMedia`
StartRecording ==
  /\ mode = "voice"
  /\ ~isRecording
  /\ events < MaxEvents
  /\ events' = events + 1
  /\ micPending' = micPending + 1
  /\ resumeRequested' = (resumeRequested \/ outputCtx = "suspended")
  /\ UNCHANGED <<recVars, micCount>>
  /\ UNCHANGED <<uiVars, transcriptVars, socketVars, handlers, outputCtx, sources,
                 nextStartTime, currentTime>>
  /\ status' = "Requesting microphone access..."
  /\ UNCHANGED error
  /\ UNCHANGED relayVars

\* getUserMedia resolves: the rest of startRecording
MicGranted ==
  /\ micPending > 0
  /\ micPending' = micPending - 1
  /\ micCount' = micCount + 1
  /\ microphoneStream' = micCount + 1
  /\ activeStreams' = activeStreams \cup {micCount + 1}
  /\ nodes' = micCount + 1
  /\ connected' = connected \cup {micCount + 1}
  /\ isRecording' = TRUE
  /\ UNCHANGED <<uiVars, transcriptVars, socketVars, audioVars, events>>
  /\ status' = "Recording... Use headphones for best results."
  /\ UNCHANGED error
  /\ UNCHANGED relayVars

\* getUserMedia rejects: catch (err) { ...; this.stopRecording() }
MicDenied ==
  /\ micPending > 0
  /\ StopRecording
  /\ micPending' = micPending - 1
  /\ UNCHANGED micCount
  /\ UNCHANGED <<uiVars, transcriptVars, socketVars, audioVars, events>>
  /\ UNCHANGED error
  /\ UNCHANGED relayVars

\* the stop button (voice mode, enabled while recording)
StopClick ==
  /\ mode = "voice"
  /\ isRecording
  /\ StopRecording
  /\ UNCHANGED <<micPending, micCount>>
  /\ UNCHANGED <<uiVars, transcriptVars, socketVars, audioVars, events>>
  /\ UNCHANGED error
  /\ UNCHANGED relayVars

\* onaudioprocess of a connected script processor, when it sends its buffer
\* (otherwise the callback returns and nothing changes)
AudioProcess(p) ==
  /\ p \in connected
  /\ isRecording /\ isSessionConnected /\ ws # 0
  /\ sockets[ws].state = "open"
  /\ events < MaxEvents
  /\ events' = events + 1
  /\ outFrames' = [outFrames EXCEPT ![ws] = Append(@, [type |-> "audio", text |-> <<>>])]
  /\ UNCHANGED <<uiVars, transcriptVars, ws, sockets, isSessionConnected, timers,
                 audioVars, micVars>>
  /\ UNCHANGED statusVars
  /\ UNCHANGED relayVars

(***************************************************************************)
(* Browser component: reset, mode switch, text input                       *)
(***************************************************************************)
\* a reset() that leaves the transcript as it is
ResetKeepsTranscript ==
  /\ mode = "voice"
  /\ ~isRecording
  /\ ConnectToProxy(CloseSocket(sockets, ws), mode)
  /\ UNCHANGED <<uiVars, transcriptVars, isSessionConnected, timers, audioVars,
                 micVars>>
  /\ status' = "Session cleared."
  /\ UNCHANGED error
  /\ UNCHANGED relayVars

\* the reset button (voice mode, disabled while recording): reset()
Reset ==
  /\ mode = "voice"
  /\ ~isRecording
  /\ ConnectToProxy(CloseSocket(sockets, ws), mode)
  /\ conversationHistory' = <<>>
  /\ historyArrival' = <<>>
  /\ currentUserInput' = <<>>
  /\ currentAiOutput' = <<>>
  /\ UNCHANGED <<uiVars, isSessionConnected, timers, audioVars, micVars>>
  /\ status' = "Session cleared."
  /\ UNCHANGED error
  /\ UNCHANGED relayVars

\* a mode button (disabled while recording): requestModeSwitch(newMode)
RequestModeSwitch(newMode) ==
  /\ ~isRecording
  /\ IF newMode = mode
       THEN UNCHANGED <<pendingMode, showModeWarning>>
     ELSE /\ pendingMode' = newMode
          /\ showModeWarning' = TRUE
  /\ UNCHANGED <<mode, textInput, transcriptVars, socketVars, audioVars, micVars,
                 events>>
  /\ UNCHANGED statusVars
  /\ UNCHANGED relayVars

\* a confirmModeSwitch() that clears the transcript as reset() does
ConfirmModeSwitchClearsHistory ==
  IF pendingMode = "null"
    THEN UNCHANGED vars
  ELSE /\ IF isRecording THEN StopRecordingNodes ELSE UNCHANGED recVars
       /\ UNCHANGED <<micPending, micCount>>
       /\ status' = SwitchedStatus(pendingMode)
       /\ UNCHANGED error
       /\ mode' = pendingMode
       /\ pendingMode' = "null"
       /\ showModeWarning' = FALSE
       /\ conversationHistory' = <<>>
       /\ historyArrival' = <<>>
       /\ currentUserInput' = <<>>
       /\ currentAiOutput' = <<>>
       /\ ConnectToProxy(CloseSocket(sockets, ws), pendingMode)
       /\ UNCHANGED <<textInput, isSessionConnected, timers, audioVars>>
       /\ UNCHANGED relayVars

\* confirmModeSwitch()
ConfirmModeSwitch ==
  IF pendingMode = "null"
    THEN UNCHANGED vars
  ELSE /\ IF isRecording THEN StopRecordingNodes ELSE UNCHANGED recVars
       /\ UNCHANGED <<micPending, micCount>>
       /\ status' = SwitchedStatus(pendingMode)
       /\ UNCHANGED error
       /\ mode' = pendingMode
       /\ pendingMode' = "null"
       /\ showModeWarning' = FALSE
       /\ currentUserInput' = <<>>
       /\ currentAiOutput' = <<>>
       /\ ConnectToProxy(CloseSocket(sockets, ws), pendingMode)
       /\ UNCHANGED <<textInput, conversationHistory, historyArrival,
                      isSessionConnected, timers, audioVars>>
       /\ UNCHANGED relayVars

\* the modal's cancel button or overlay: cancelModeSwitch()
CancelModeSwitch ==
  /\ showModeWarning
  /\ pendingMode' = "null"
  /\ showModeWarning' = FALSE
  /\ UNCHANGED <<mode, textInput, transcriptVars, socketVars, audioVars, micVars,
                 events>>
  /\ UNCHANGED statusVars
  /\ UNCHANGED relayVars

\* the text field (text mode; disabled if the session was not connected when
\* render() last ran)
SetTextInput(v) ==
  /\ mode = "text"
  /\ renderedConnected
  /\ textInput' = v
  /\ UNCHANGED <<mode, pendingMode, showModeWarning, transcriptVars, socketVars,
                 audioVars, micVars, events>>
  /\ UNCHANGED statusVars
  /\ UNCHANGED relayVars

\* sendText() from the send button or the Enter key (text mode). send()
\* throws on a CONNECTING socket and discards the data on a CLOSING or
\* CLOSED one.
SendText ==
  /\ mode = "text"
  /\ renderedConnected
  /\ events < MaxEvents
  /\ IF Trim(textInput) = <<>> \/ ws = 0 \/ ~isSessionConnected
       THEN UNCHANGED <<textInput, transcriptVars, outFrames, events>>
     ELSE /\ conversationHistory' =
               Append(conversationHistory, Entry("user", Trim(textInput)))
          /\ historyArrival' = Append(historyArrival, events + 1)
          /\ events' = events + 1
          /\ outFrames' =
               IF sockets[ws].state = "open"
                 THEN [outFrames EXCEPT
                         ![ws] = Append(@, [type |-> "text", text |-> Trim(textInput)])]
               ELSE outFrames
          /\ textInput' = IF sockets[ws].state = "connecting" THEN textInput
                          ELSE <<>>
          /\ UNCHANGED <<currentUserInput, currentAiOutput>>
  /\ UNCHANGED <<mode, pendingMode, showModeWarning, ws, sockets,
                 isSessionConnected, timers, audioVars, micVars>>
  /\ UNCHANGED statusVars
  /\ UNCHANGED relayVars

(***************************************************************************)
(* Browser component: specification                                        *)
(***************************************************************************)
\* lastOp after reset(), confirmModeSwitch() or sendText(): its name, and isRecording and
\* the length of conversationHistory when it was called
UserOp(name) ==
  [name |-> name, recording |-> isRecording, entries |-> Len(conversationHistory)]

\* lastOp after any other operation
OtherOp == [name |-> "other", recording |-> FALSE, entries |-> 0]

\* lastOp after the step in which the transcript part of handleGeminiMessage
\* ran for message d
HandledOp(d) ==
  [name |-> IF d.interrupted THEN "interrupted"
            ELSE IF d.turnComplete THEN "turnComplete"
            ELSE "other",
   recording |-> FALSE, entries |-> 0]

\* lastOp after ws.onmessage handled frame m
FrameOp(m) == [name |-> m.type, recording |-> FALSE, entries |-> 0]

\* the step appended an {role: 'ai'} entry to conversationHistory
AiCommitted ==
  /\ Len(conversationHistory') > Len(conversationHistory)
  /\ conversationHistory'[Len(conversationHistory')].role = "ai"

\* the bookkeeping of a step: op is the operation that ran and chunk the text
\* of the text_chunk frame it received (empty if it received none)
Ran(op, chunk) ==
  /\ lastOp' = op
  /\ chunksSinceCommit' = IF AiCommitted THEN <<>> ELSE chunksSinceCommit \o chunk

\* the properties declared with @state(): assigning one a different value
\* requests an update of the element
Reactive ==
  <<status, error, mode, pendingMode, showModeWarning, textInput, isRecording,
    conversationHistory, currentUserInput, currentAiOutput>>

\* the update cycle of the element after a step: render() runs if a reactive
\* property changed or the step called requestUpdate() (requested: it did so,
\* or assigned a property twice or a fresh array), and reads
\* isSessionConnected, which is not reactive
Update(requested) ==
  renderedConnected' = IF requested \/ Reactive' # Reactive
                         THEN isSessionConnected'
                       ELSE renderedConnected

\* the transcript part of handleGeminiMessage calls requestUpdate() or
\* assigns a reactive property for message d
MessageUpdates(d) ==
  \/ d.text # <<>> \/ d.itText # <<>> \/ d.itFinished
  \/ d.otText # <<>> \/ d.turnComplete \/ d.interrupted

\* one operation of the component
ClientNext ==
  \/ (\E i \in DOMAIN sockets : SockOpen(i)) /\ Ran(OtherOp, <<>>) /\ Update(FALSE)
  \/ (\E i \in DOMAIN sockets : SockError(i)) /\ Ran(OtherOp, <<>>) /\ Update(FALSE)
  \/ (\E i \in DOMAIN sockets : SockClose(i)) /\ Ran(OtherOp, <<>>) /\ Update(FALSE)
  \/ \E i \in DOMAIN sockets, m \in ProxyMessages :
       /\ SockMessage(i, m)
       /\ Ran(IF m.type = "message" /\ ~m.data.audio THEN HandledOp(m.data)
              ELSE IF m.type = "text_complete" THEN FrameOp(m)
              ELSE OtherOp,
              IF m.type = "text_chunk" THEN m.text ELSE <<>>)
       /\ Update(\/ m.type = "text_complete"
                 \/ m.type = "message" /\ ~m.data.audio /\ MessageUpdates(m.data))
  \/ TimerFire /\ Ran(OtherOp, <<>>) /\ Update(FALSE)
  \/ (\E t \in 0..MaxClock : ResumeDone(t)) /\ Ran(OtherOp, <<>>) /\ Update(FALSE)
  \/ (\E t \in 0..MaxClock : Tick(t)) /\ Ran(OtherOp, <<>>) /\ Update(FALSE)
  \/ \E h \in handlers :
       DecodeDone(h) /\ Ran(HandledOp(h.data), <<>>) /\ Update(MessageUpdates(h.data))
  \/ (\E src \in sources : SourceEnded(src)) /\ Ran(OtherOp, <<>>) /\ Update(FALSE)
  \/ StartRecording /\ Ran(OtherOp, <<>>) /\ Update(FALSE)
  \/ MicGranted /\ Ran(OtherOp, <<>>) /\ Update(TRUE)
  \/ MicDenied /\ Ran(OtherOp, <<>>) /\ Update(TRUE)
  \/ StopClick /\ Ran(OtherOp, <<>>) /\ Update(TRUE)
  \/ (\E p \in connected : AudioProcess(p)) /\ Ran(OtherOp, <<>>) /\ Update(FALSE)
  \/ Reset /\ Ran(UserOp("reset"), <<>>) /\ Update(TRUE)
  \/ (\E m \in Modes : RequestModeSwitch(m)) /\ Ran(OtherOp, <<>>) /\ Update(FALSE)
  \/ ConfirmModeSwitch /\ Ran(UserOp("confirmModeSwitch"), <<>>) /\ Update(TRUE)
  \/ CancelModeSwitch /\ Ran(OtherOp, <<>>) /\ Update(FALSE)
  \/ (\E v \in TextInputs : SetTextInput(v)) /\ Ran(OtherOp, <<>>) /\ Update(FALSE)
  \/ SendText /\ Ran(UserOp("sendText"), <<>>) /\ Update(FALSE)

\* the relay as started and the component as constructed
Init == RelayInit /\ ClientInit

SpecClient == Init /\ [][ClientNext]_vars

(***************************************************************************)
(* Relay: specifications                                                   *)
(***************************************************************************)
\* the session lifecycle of MaxConns connections, without traffic
SessionsNext ==
  \/ \E p \in ModeParams, fail \in {"none", "ctor", "create"}, t \in 0..MaxTime :
       Accept(p, fail, t)
  \/ \E c \in Conns : UpOpen(c)
  \/ \E c \in Conns : ConnectResolve(c)
  \/ \E c \in Conns : ConnectReject(c)
  \/ \E c \in Conns : UpClose(c)
  \/ \E c \in Conns : ClientClose(c)

SpecSessions == Init /\ [][SessionsNext]_vars

\* one connection and all its traffic: connections share nothing but the
\* sessions map, whose interplay SpecSessions covers
TrafficNext ==
  \/ \E p \in ModeParams, fail \in {"none", "ctor", "create"}, t \in 0..MaxTime :
       accepted = 0 /\ Accept(p, fail, t)
  \/ \E c \in Conns : UpOpen(c)
  \/ \E c \in Conns : ConnectResolve(c)
  \/ \E c \in Conns : ConnectReject(c)
  \/ \E c \in Conns, kind \in {"inputTranscription", "other"} : UpMessage(c, kind)
  \/ \E c \in Conns : UpError(c)
  \/ \E c \in Conns : UpClose(c)
  \/ \E c \in Conns, kind \in FrameKinds, text \in {"", "hi"}, throws \in BOOLEAN :
       ClientFrame(c, kind, text, throws)
  \/ \E c \in Conns, r \in 1..MaxFrames, n \in 0..MaxChunks : StreamStart(c, r, n)
  \/ \E c \in Conns, r \in 1..MaxFrames, hasText \in BOOLEAN : StreamChunk(c, r, hasText)
  \/ \E c \in Conns, r \in 1..MaxFrames : StreamEnd(c, r)
  \/ \E c \in Conns, r \in 1..MaxFrames : StreamFail(c, r)
  \/ \E c \in Conns : ClientClose(c)

SpecTraffic == Init /\ [][TrafficNext]_vars

(***************************************************************************)
(* Relay: the claims                                                       *)
(***************************************************************************)
\* the sessions map holds a record stored by connection c's handler
HasRecord(c) == \E k \in DOMAIN sessions : sessions[k].conn = c

\* the number of error frames the catch block of the handler sent
SetupErrorFrames(s) ==
  Len(SelectSeq(s, LAMBDA f : f.type = "error" /\ f.text = "setup"))

\* C1: every connection handler creates at most one upstream session (one call
\* of live.connect or chats.create), in any mode and after any sequence of
\* client frames and upstream events.
C1_OneUpstreamSession == \A c \in Conns : connectCalls[c] <= 1

\* C1 witness: a voice connection that has relayed a client frame and an
\* upstream message and whose upstream session has closed, with one session.
C1_Witness ==
  \E c \in Conns :
    /\ connMode[c] = "voice" /\ pc[c] = "serving"
    /\ connectCalls[c] = 1
    /\ Len(upstreamInput[c]) > 0 /\ Len(upDelivered[c]) > 0
    /\ upstream[c] = "closed"

\* C2 (as claimed): once the close of a connection's client socket has been
\* processed, the sessions map holds no record stored for that connection.
C2_RecordDeletedOnClose ==
  \A c \in Conns : clientWs[c] = "closed" => ~HasRecord(c)

\* C3 (as claimed): distinct connections have distinct keys, and a connection
\* being served on an open socket keeps its record and its upstream session
\* whatever happens to the other connections.
C3_ConnectionsIndependent ==
  /\ \A a, b \in 1..accepted : a # b => sessionId[a] # sessionId[b]
  /\ \A c \in Conns :
       (pc[c] = "serving" /\ clientWs[c] = "open")
         => (HasRecord(c) /\ closeCalls[c] = 0)

\* C4: after a setup failure (the vendor client, chats.create or live.connect
\* throws or rejects) the handler has sent exactly one setup error frame, the
\* client socket is closed, the map holds no record of the connection, and
\* no second connection attempt was made or is pending.
C4_SetupFailureTerminates ==
  \A c \in Conns :
    pc[c] = "failed" =>
      /\ SetupErrorFrames(sent[c]) = 1
      /\ clientWs[c] = "closed"
      /\ ~HasRecord(c)
      /\ connectCalls[c] <= 1
      /\ upstream[c] \in {"none", "failed"}

\* C4 witness: a live.connect of a voice connection was rejected.
C4_Witness ==
  \E c \in Conns :
    /\ pc[c] = "failed" /\ connMode[c] = "voice"
    /\ connectCalls[c] = 1 /\ upstream[c] = "failed"

\* C5 (as claimed): every error raised while serving a connection (upstream
\* onerror, failed streaming request, failed SDK call or failed parse on a
\* client frame, setup failure) was forwarded as an error frame.
C5_EveryErrorForwarded ==
  \A c \in Conns :
    Count(sent[c], {"error", "playground_error"})
      = errs[c].upstream + errs[c].stream + errs[c].frame + errs[c].setup

\* C5 (amended): the error frames sent to a connection are exactly one per
\* upstream onerror event, per failed streaming request ('playground_error'
\* in playground mode, 'error' in text mode) and per setup failure; an error
\* raised while handling a client frame (JSON.parse, sendRealtimeInput,
\* sendClientContent) is caught and logged and adds no frame.
C5_ForwardedErrors ==
  \A c \in Conns :
    /\ Count(sent[c], {"error"})
         = errs[c].upstream + errs[c].setup
           + (IF connMode[c] = "playground" THEN 0 ELSE errs[c].stream)
    /\ Count(sent[c], {"playground_error"})
         = (IF connMode[c] = "playground" THEN errs[c].stream ELSE 0)

\* C5 witness: a voice connection on which a client frame failed and an
\* upstream error was forwarded.
C5_Witness ==
  \E c \in Conns :
    /\ connMode[c] = "voice"
    /\ errs[c].frame > 0 /\ errs[c].upstream > 0
    /\ Count(sent[c], {"error"}) = 1

\* C6 (as claimed): on a voice connection the 'message' frames sent to the
\* client are the upstream messages in arrival order, and the calls of
\* sendRealtimeInput / sendClientContent are the client's audio and text
\* frames in the order sent, none dropped.
C6_VoicePipesOneToOne ==
  \A c \in Conns :
    connMode[c] = "voice" =>
      /\ Ids(Select(sent[c], {"message"})) = Ids(upDelivered[c])
      /\ Ids(upstreamInput[c]) = Ids(Select(clientFrames[c], {"audio", "text"}))

\* C7 (as claimed): once the client socket of a voice or stt connection is
\* closed, the live session opened for it has been closed by exactly one
\* call of session.close().
C7_UpstreamClosedWithSocket ==
  \A c \in Conns :
    (connMode[c] \in {"voice", "stt"} /\ pc[c] = "serving"
       /\ clientWs[c] = "closed")
      => closeCalls[c] = 1

(***************************************************************************)
(* Claims about the browser component (SpecClient)                         *)
(***************************************************************************)
\* C8: the entries of conversationHistory are in the order in which their
\* committing events (sendText, inputTranscription.finished, turnComplete,
\* text_complete) arrived at the component: an entry never stands before an
\* entry whose committing event arrived earlier, also when handlers of
\* handleGeminiMessage overlap at its awaits.
C8_OrderedByArrival ==
  \A i, j \in DOMAIN historyArrival :
    i < j => historyArrival[i] <= historyArrival[j]

\* C9: a step of reset() leaves conversationHistory, currentUserInput and
\* currentAiOutput empty, the socket it held closing or closed and a new
\* connecting socket for the current mode in this.ws; a step of any other
\* operation keeps every entry of conversationHistory in its place.
C9_ClearedOnlyOnReset ==
  [][/\ lastOp'.name = "reset" =>
          /\ conversationHistory' = <<>>
          /\ currentUserInput' = <<>>
          /\ currentAiOutput' = <<>>
          /\ sockets'[ws].state \in {"closing", "closed"}
          /\ Len(sockets') = Len(sockets) + 1
          /\ ws' = Len(sockets')
          /\ sockets'[ws'] = [state |-> "connecting", url |-> mode]
     /\ lastOp'.name # "reset" =>
          /\ Len(conversationHistory) <= Len(conversationHistory')
          /\ SubSeq(conversationHistory', 1, Len(conversationHistory))
               = conversationHistory]_vars

\* reset() ran last, on a transcript that held an entry and an open socket
C9_Witness ==
  /\ lastOp.name = "reset"
  /\ lastOp.entries > 0
  /\ conversationHistory = <<>>
  /\ sockets[ws - 1].state = "closing"

\* C10: a step of confirmModeSwitch() happens only with a pending mode; it
\* leaves conversationHistory unchanged, currentUserInput and currentAiOutput
\* empty, recording stopped (the microphone stream stopped and the processor
\* disconnected if it was recording), mode set to the pending mode,
\* pendingMode and showModeWarning cleared, the socket it held closing or
\* closed and a new connecting socket with ?mode=<new mode> in this.ws.
C10_ConfirmModeSwitchEffects ==
  [][lastOp'.name = "confirmModeSwitch" =>
       /\ pendingMode # "null"
       /\ conversationHistory' = conversationHistory
       /\ currentUserInput' = <<>>
       /\ currentAiOutput' = <<>>
       /\ ~isRecording'
       /\ isRecording => /\ microphoneStream \notin activeStreams'
                         /\ nodes \notin connected'
                         /\ microphoneStream' = 0
       /\ mode' = pendingMode
       /\ pendingMode' = "null"
       /\ ~showModeWarning'
       /\ sockets'[ws].state \in {"closing", "closed"}
       /\ Len(sockets') = Len(sockets) + 1
       /\ ws' = Len(sockets')
       /\ sockets'[ws'] = [state |-> "connecting", url |-> pendingMode]]_vars

\* confirmModeSwitch() ran last, while recording and with an entry in the
\* transcript, and switched from voice to text
C10_Witness ==
  /\ lastOp.name = "confirmModeSwitch"
  /\ lastOp.recording
  /\ lastOp.entries > 0
  /\ Len(conversationHistory) = lastOp.entries
  /\ mode = "text"
  /\ ~isRecording
  /\ activeStreams = {}
  /\ sockets[ws].url = "text"

(***************************************************************************)
(* Relay: mode dispatch                                                    *)
(***************************************************************************)
\* C11: the branch a connection takes is a function of its 'mode' parameter
\* (playground, text, stt; voice for an absent parameter and any other
\* value), one branch per connection, and every record a handler stores is
\* the record of its branch: 'playground' without an upstream session, 'text'
\* with a chat session, 'stt-gemini' and 'voice' with a live session.
C11_ModeDispatch ==
  /\ [](\A k \in DOMAIN sessions :
          LET r == sessions[k]
              b == connMode[r.conn]
          IN /\ b = "playground" =>
                  /\ r.type = "playground" /\ r.session = 0 /\ r.chatSession = 0
                  /\ upstream[r.conn] = "none" /\ connectCalls[r.conn] = 0
             /\ b = "text" =>
                  /\ r.type = "text" /\ r.session = 0 /\ r.chatSession = r.conn
                  /\ upstream[r.conn] = "chat"
             /\ b = "stt" =>
                  /\ r.type = "stt-gemini" /\ r.session = r.conn /\ r.chatSession = 0
                  /\ upstream[r.conn] \in {"open", "closed"}
             /\ b = "voice" =>
                  /\ r.type = "voice" /\ r.session = r.conn /\ r.chatSession = 0
                  /\ upstream[r.conn] \in {"open", "closed"}
             /\ b \in {"playground", "text", "stt", "voice"})
  /\ [][\A p \in ModeParams, fail \in {"none", "ctor", "create"}, t \in 0..MaxTime :
          Accept(p, fail, t) =>
            /\ connMode'[accepted'] =
                 (CASE p = "playground" -> "playground"
                    [] p = "text" -> "text"
                    [] p = "stt" -> "stt"
                    [] OTHER -> "voice")
            /\ \A c \in Conns \ {accepted'} : connMode'[c] = connMode[c]]_vars

\* two connections were dispatched: one stored an 'stt-gemini' record with
\* its live session, the other a 'playground' record
C11_Witness ==
  \E k1, k2 \in DOMAIN sessions :
    /\ sessions[k1].type = "stt-gemini" /\ sessions[k1].session = sessions[k1].conn
    /\ connMode[sessions[k1].conn] = "stt"
    /\ sessions[k2].type = "playground" /\ connMode[sessions[k2].conn] = "playground"

(***************************************************************************)
(* Browser component: sockets and reconnection                             *)
(***************************************************************************)
\* C12: the component keeps at most one live WebSocket: every socket it
\* created that is connecting or open is the one stored in this.ws, also
\* after reset(), confirmModeSwitch() and a session_close message.
C12_OneLiveSocket ==
  \A i \in DOMAIN sockets :
    sockets[i].state \in {"connecting", "open"} => i = ws

\* C13: the component reconnects after every disconnect: a socket that
\* closes schedules a reconnect, a reconnect that runs opens a socket for the
\* mode of that moment, and whenever the component loses its connected
\* session a reconnect is under way (a connecting socket in this.ws),
\* scheduled (a timer) or about to be scheduled (a close event pending).
C13_ReconnectAfterDisconnect ==
  [][/\ (\E i \in DOMAIN sockets :
           sockets[i].state # "closed" /\ sockets'[i].state = "closed")
          => timers' = timers + 1
     /\ timers' < timers
          => /\ Len(sockets') = Len(sockets) + 1
             /\ sockets'[ws'] = [state |-> "connecting", url |-> mode]
     /\ (isSessionConnected /\ ~isSessionConnected')
          => \/ timers' > 0
             \/ sockets'[ws'].state = "connecting"
             \/ \E i \in DOMAIN sockets' : sockets'[i].state = "closing"]_vars

\* C14: isSessionConnected describes the socket in this.ws: it is true only
\* if that socket received session_open and has since not closed or failed,
\* so only while that socket is open.
C14_SessionFlagOfCurrentSocket ==
  isSessionConnected => sockets[ws].state = "open"

(***************************************************************************)
(* Browser component: sendText                                             *)
(***************************************************************************)
\* C15: sendText() with a blank textInput, no socket or isSessionConnected
\* false changes nothing and sends nothing; otherwise it appends one 'user'
\* entry with the trimmed text, sends one {type:'text'} frame with that text
\* on this.ws and clears textInput, so that every entry it adds stands for a
\* frame sent to the relay.
C15_SendTextAddsAndSends ==
  [][lastOp'.name = "sendText" =>
       IF Trim(textInput) = <<>> \/ ws = 0 \/ ~isSessionConnected
         THEN UNCHANGED <<uiVars, transcriptVars, socketVars>>
       ELSE /\ conversationHistory' =
                 Append(conversationHistory, Entry("user", Trim(textInput)))
            /\ outFrames' =
                 [outFrames EXCEPT
                    ![ws] = Append(@, [type |-> "text", text |-> Trim(textInput)])]
            /\ textInput' = <<>>]_vars

(***************************************************************************)
(* Relay: streamed text responses                                          *)
(***************************************************************************)
\* C16: on a text-mode connection the responses are not interleaved: no
\* text_chunk or text_complete of an earlier request is sent after a
\* text_chunk of a later request.
C16_TextResponsesNotInterleaved ==
  \A c \in Conns :
    connMode[c] = "text" =>
      \A i, j \in DOMAIN sent[c] :
        (/\ i < j
         /\ sent[c][i].type = "text_chunk"
         /\ sent[c][j].type \in {"text_chunk", "text_complete"})
          => sent[c][i].id <= sent[c][j].id

(***************************************************************************)
(* Browser component: recovery from error frames                           *)
(***************************************************************************)
\* C17: the component recovers from every {type:'error'} frame without user
\* action: when an error frame ends its connected session (the flag falls
\* while no socket changes state and no timer is set, which only the 'error'
\* branch of ws.onmessage does), what leads to the next session_open is
\* already under way: a reconnect timer, a close event that will set one, or
\* a connecting socket in this.ws.
C17_RecoversAfterError ==
  [][(/\ isSessionConnected /\ ~isSessionConnected'
      /\ sockets' = sockets
      /\ timers' = timers)
       => \/ timers' > 0
          \/ sockets'[ws'].state = "connecting"
          \/ \E i \in DOMAIN sockets' : sockets'[i].state = "closing"]_vars

(***************************************************************************)
(* Browser component: turn completion, interruption, audio scheduling      *)
(***************************************************************************)
\* C18: a step that handles turnComplete appends the trimmed currentAiOutput
\* as one 'ai' entry if it is not blank, and clears it; a step that handles
\* interrupted leaves sources empty, nextStartTime 0 and currentAiOutput
\* empty and adds nothing to the history; and once an interruption has been
\* handled no audio that arrived before it plays or starts later: no source
\* is left and no handler of an earlier audio message is still suspended
\* before its source.start().
C18_CommitAndInterrupt ==
  [][/\ lastOp'.name = "turnComplete" =>
          /\ Trim(currentAiOutput') = <<>>
          /\ Trim(currentAiOutput) # <<>> =>
               /\ Len(conversationHistory') = Len(conversationHistory) + 1
               /\ currentAiOutput' = <<>>
          /\ Len(conversationHistory') > Len(conversationHistory) =>
               /\ Len(conversationHistory') = Len(conversationHistory) + 1
               /\ conversationHistory'[Len(conversationHistory')].role = "ai"
               /\ currentAiOutput' = <<>>
     /\ lastOp'.name = "interrupted" =>
          /\ sources' = {}
          /\ nextStartTime' = 0
          /\ currentAiOutput' = <<>>
          /\ conversationHistory' = conversationHistory
          /\ handlers' = {}]_vars

C20_RecordingOnlyInVoiceMode == isRecording => mode = "voice"

\* C21: at most one microphone capture is active: every microphone stream that
\* was acquired and not stopped is the one this.microphoneStream holds, and
\* every script processor still connected is the one this.scriptProcessorNode
\* holds, so that a stopRecording() releases all of them
C21_OneMicCapture ==
  /\ activeStreams \subseteq {microphoneStream}
  /\ connected \subseteq {nodes}

\* C22: a text_chunk frame with non-empty text appends that text to
\* currentAiOutput and commits nothing; a text_complete frame appends exactly
\* one {role: 'ai'} entry equal to the trimmed currentAiOutput and empties
\* currentAiOutput, or changes neither when currentAiOutput is blank; no entry
\* of conversationHistory ever has blank text
C22_TextCommittedOnce ==
  /\ [](\A k \in DOMAIN conversationHistory :
          Trim(conversationHistory[k].text) # <<>>)
  /\ [][/\ Len(chunksSinceCommit') > Len(chunksSinceCommit) =>
             \E m \in ProxyMessages :
               /\ m.type = "text_chunk"
               /\ chunksSinceCommit' = chunksSinceCommit \o m.text
               /\ currentAiOutput' = currentAiOutput \o m.text
               /\ conversationHistory' = conversationHistory
        /\ lastOp'.name = "text_complete" =>
             IF Trim(currentAiOutput) # <<>>
               THEN /\ conversationHistory' =
                         Append(conversationHistory,
                                Entry("ai", Trim(currentAiOutput)))
                    /\ currentAiOutput' = <<>>
             ELSE /\ conversationHistory' = conversationHistory
                  /\ currentAiOutput' = currentAiOutput]_vars

\* C22 (case reached): a text_complete frame, the third frame received, has
\* just committed the text accumulated before it as the only entry,
\* {role: 'ai', text: "a"}, and emptied currentAiOutput
C22_Witness ==
  /\ lastOp.name = "text_complete"
  /\ conversationHistory = <<Entry("ai", <<"a">>)>>
  /\ historyArrival = <<events>>
  /\ events = 3
  /\ currentAiOutput = <<>>

\* C22 (as stated): a text_complete frame appends exactly one {role: 'ai'}
\* entry equal to the trimmed concatenation of the text_chunk texts received
\* since the previous 'ai' entry was committed and empties currentAiOutput, or
\* appends nothing when that concatenation is blank
C22_ChunksSincePreviousCommit ==
  [][lastOp'.name = "text_complete" =>
       IF Trim(chunksSinceCommit) # <<>>
         THEN /\ conversationHistory' =
                   Append(conversationHistory,
                          Entry("ai", Trim(chunksSinceCommit)))
              /\ currentAiOutput' = <<>>
       ELSE conversationHistory' = conversationHistory]_vars

====
